---- MODULE Spec2Model ----
(***************************************************************************)
(* Model of ComfyUI_RSS_Tool (src/__init__.py): the two nodes              *)
(* RSSFeedParserNode (stage 1) and ArticleContentExtractorNode (stage 2).  *)
(*                                                                         *)
(* A Python str is a sequence of characters; long literals of the source   *)
(* ("URL: ", "Error parsing feed:") are kept as one element each.  The     *)
(* collaborators (requests, lxml, newspaper, nltk, os/shutil) are the      *)
(* environment: every outcome they can produce is a choice of the action   *)
(* that calls them.                                                        *)
(***************************************************************************)
EXTENDS Naturals, Sequences, FiniteSets

\* ---------------------------------------------------------------- bounds
MaxNodes == 2      \* children of the feed's root element
MaxLen == 5        \* characters of a directly supplied feed_links text

\* ---------------------------------------------------------------- strings
NL == "\n"
None == <<"None">>             \* Python's None (no str is this 1-sequence)
NoValue == <<"-">>             \* "nothing returned (yet)"

SeqsUpTo(S, n) == UNION {[1..k -> S] : k \in 0..n}

RECURSIVE Join(_, _)
\* sep.join(parts); every part is a str
Join(parts, sep) ==
    IF parts = <<>> THEN <<>>
    ELSE IF Len(parts) = 1 THEN parts[1]
    ELSE parts[1] \o sep \o Join(Tail(parts), sep)

RECURSIVE Split(_, _)
\* s.split(c) for a one-character separator c
Split(s, c) ==
    IF \A k \in 1..Len(s) : s[k] # c THEN <<s>>
    ELSE LET p == CHOOSE k \in 1..Len(s) : s[k] = c /\ \A j \in 1..(k-1) : s[j] # c
         IN  <<SubSeq(s, 1, p-1)>> \o Split(SubSeq(s, p+1, Len(s)), c)

Whitespace == {" ", "\t", "\r", NL}

RECURSIVE LStrip(_)
LStrip(s) == IF s # <<>> /\ s[1] \in Whitespace THEN LStrip(Tail(s)) ELSE s

RECURSIVE RStrip(_)
RStrip(s) ==
    IF s # <<>> /\ s[Len(s)] \in Whitespace THEN RStrip(SubSeq(s, 1, Len(s)-1)) ELSE s

\* s.strip()
Strip(s) == RStrip(LStrip(s))

\* ------------------------------------------------------------ exceptions
Ok(v) == [ok |-> TRUE, val |-> v, type |-> "", msg |-> <<>>]
Raise(t, m) == [ok |-> FALSE, val |-> <<>>, type |-> t, msg |-> m]

\* ---------------------------------------------------------- XML documents
AtomNS == "http://www.w3.org/2005/Atom"

El(ns, name, text, rel, href, kids) ==
    [ns |-> ns, name |-> name, text |-> text, rel |-> rel, href |-> href, kids |-> kids]

\* element.tag as lxml renders it: "{namespace}name", or "name"
Tag(e) == IF e.ns = "" THEN <<e.name>> ELSE <<"{", e.ns, "}", e.name>>

RssLink(t) == El("", "link", t, None, None, <<>>)
RssTitle == El("", "title", <<"t">>, None, None, <<>>)
RssItem(kids) == El("", "item", <<>>, None, None, kids)
Channel(kids) == El("", "channel", <<>>, None, None, kids)

ItemKids ==
    { <<>>, <<RssTitle>>,
      <<RssLink(<<>>)>>, <<RssLink(<<"a">>)>>, <<RssLink(<<"b">>)>>,
      <<RssTitle, RssLink(<<"a">>)>>,
      <<RssLink(<<"a">>), RssLink(<<"b">>)>>,
      <<RssTitle, RssItem(<<RssLink(<<"b">>)>>)>> }

RssItems == {RssItem(k) : k \in ItemKids}
RssNodes ==
    RssItems \cup {Channel(<<>>), Channel(<<RssItem(<<RssLink(<<"a">>)>>)>>),
                   Channel(<<RssItem(<<RssTitle>>), RssItem(<<RssLink(<<"b">>)>>)>>)}

AtomLink(rel, href) == El(AtomNS, "link", <<>>, rel, href, <<>>)
AtomEntry(kids) == El(AtomNS, "entry", <<>>, None, None, kids)

EntryKids ==
    { <<>>,
      <<AtomLink(<<"alternate">>, <<"a">>)>>,
      <<AtomLink(<<"self">>, <<"b">>)>>,
      <<AtomLink(<<"self">>, <<"b">>), AtomLink(<<"alternate">>, <<"a">>)>>,
      <<AtomLink(<<"alternate">>, <<"b">>)>> }

AtomEntries == {AtomEntry(k) : k \in EntryKids}

RssDocs == {El("", "rss", <<>>, None, None, k) : k \in SeqsUpTo(RssNodes, MaxNodes)}
AtomDocs == {El(AtomNS, "feed", <<>>, None, None, k) : k \in SeqsUpTo(AtomEntries, MaxNodes)}
OtherDocs ==
    { El("", "html", <<>>, None, None, <<>>),
      El("http://purl.org/rss/1.0/", "rss", <<>>, None, None, <<RssItem(<<RssLink(<<"a">>)>>)>>),
      El("", "feed", <<>>, None, None, <<AtomEntry(<<>>)>>) }
Docs == RssDocs \cup AtomDocs \cup OtherDocs

RECURSIVE Descendants(_)
RECURSIVE DescendantsOfAll(_)
\* the proper descendants of e in document order
Descendants(e) == DescendantsOfAll(e.kids)
DescendantsOfAll(es) ==
    IF es = <<>> THEN <<>>
    ELSE <<es[1]>> \o Descendants(es[1]) \o DescendantsOfAll(Tail(es))

\* find() returning None
NoElement == El("", "", None, None, None, <<>>)

\* ElementPath find('name'): the first child with that tag, or None
Find(e, ns, name) ==
    LET hits == SelectSeq(e.kids, LAMBDA c : c.ns = ns /\ c.name = name)
    IN  IF hits = <<>> THEN NoElement ELSE hits[1]

\* ElementPath findtext('name'): the text of the first such child ("" when it
\* has no text), or None
FindText(e, ns, name) ==
    LET c == Find(e, ns, name) IN IF c = NoElement THEN None ELSE c.text

\* ------------------------------------------------------------------ state
VARIABLES
    pc,               \* where the host's single thread is
    feed,             \* what feed_url served to the last stage 1 call
    stage1_out,       \* the string stage 1 returned (the upstream node's output)
    feed_links,       \* stage 2's feed_links argument
    opts,             \* stage 2's four switches
    links,            \* line 121
    idx,              \* position of the batch loop in links (1-based)
    results,          \* line 122
    report,           \* the string stage 2 returned
    calls,            \* the collaborator calls of the current stage 2 call, in order
    log,              \* what the current stage 2 call printed
    punkt_dir,        \* <nltk_data_path>/tokenizers/punkt exists
    punkt_elsewhere   \* tokenizers/punkt resolves without that directory
                      \* (another entry of nltk.data.path, or the punkt.zip archive)

vars == <<pc, feed, stage1_out, feed_links, opts, links, idx, results, report,
          calls, log, punkt_dir, punkt_elsewhere>>

\* pc values at which a call of execute has ended (returned, or raised)
Ended == {"s1_done", "s1_raised", "s2_done", "s2_raised"}

\* ---------------------------------------------------------------- stage 1
NoFeed == [kind |-> "none", decl |-> FALSE, wellformed |-> FALSE, body |-> NoElement]

\* what requests.get / raise_for_status / response.text can produce: a
\* transport failure, a failure status, or a text (with or without the
\* declaration line 49 names; well-formed XML or not)
Responses ==
    { [NoFeed EXCEPT !.kind = "transport_error"], [NoFeed EXCEPT !.kind = "http_error"] }
    \cup [kind : {"ok"}, decl : BOOLEAN, wellformed : {TRUE}, body : Docs]
    \cup [kind : {"ok"}, decl : BOOLEAN, wellformed : {FALSE}, body : {NoElement}]

\* lines 44-45: requests.get(feed_url, timeout) and raise_for_status()
Fetch(resp) ==
    IF resp.kind = "transport_error" THEN Raise("ConnectionError", <<"timed out">>)
    ELSE IF resp.kind = "http_error" THEN Raise("HTTPError", <<"404 Client Error">>)
    ELSE Ok(resp)

\* line 49: the declaration, when the text has one, is replaced by ''
StripDeclaration(text) == [text EXCEPT !.decl = FALSE]

\* lines 52-53: etree.parse(StringIO(xml_content)).getroot()
ParseXml(text) ==
    IF ~text.wellformed THEN Raise("XMLSyntaxError", <<"syntax error">>)
    ELSE Ok(text.body)

\* root.xpath('.//item')
XPathItems(root) == SelectSeq(Descendants(root), LAMBDA e : e.ns = "" /\ e.name = "item")

RECURSIVE RssLinkTexts(_)
\* the list comprehension of parse_rss over the selected items
RssLinkTexts(items) ==
    IF items = <<>> THEN <<>>
    ELSE (IF Find(items[1], "", "link") # NoElement
          THEN <<FindText(items[1], "", "link")>> ELSE <<>>)
         \o RssLinkTexts(Tail(items))

parse_rss(root) == Ok(RssLinkTexts(XPathItems(root)))

\* root.findall('.//atom:entry', ns)
FindAllEntries(root) ==
    SelectSeq(Descendants(root), LAMBDA e : e.ns = AtomNS /\ e.name = "entry")

\* entry.findtext('.//atom:link[@rel="alternate"]/@href', namespaces=ns):
\* ElementPath has no attribute step.  Its path compiler looks every step's
\* first token up in a table of the steps it knows (a tag, *, ., .., //, [ )
\* and "@" is not one of them, so the call raises KeyError('@') for every
\* entry it is made on, whatever the entry holds.
AtomFindText(entry) == Raise("KeyError", <<"'@'">>)

\* the list comprehension of parse_atom: there is no filter, and the first
\* findtext call that raises ends it
parse_atom(root) ==
    LET entries == FindAllEntries(root)
    IN  IF entries = <<>> THEN Ok(<<>>) ELSE AtomFindText(entries[1])

\* lines 56-62
Dispatch(root) ==
    IF Tag(root) = <<"rss">> THEN parse_rss(root)
    ELSE IF root.ns = AtomNS THEN parse_atom(root)
    ELSE Raise("ValueError", <<"Unsupported feed format: ">> \o Tag(root))

\* the body of the try block, lines 44-64
TryBody(resp) ==
    LET got == Fetch(resp) IN
    IF ~got.ok THEN got
    ELSE LET parsed == ParseXml(StripDeclaration(got.val)) IN
         IF ~parsed.ok THEN parsed
         ELSE LET found == Dispatch(parsed.val) IN
              IF ~found.ok THEN found
              ELSE IF \E k \in 1..Len(found.val) : found.val[k] = None
                   THEN Raise("TypeError", <<"expected str instance">>)
                   ELSE Ok(Join(found.val, <<NL>>))

CatchesOnlyValueError(type) == type = "ValueError"

\* line 65: "except Exception" takes every exception a collaborator raises
Catches(type) == TRUE

ErrorPrefix == <<"Error parsing feed:", " ">>

\* lines 42-66: [returned, val]; returned = FALSE when an exception escapes
Stage1(resp) ==
    LET r == TryBody(resp) IN
    IF r.ok THEN [returned |-> TRUE, val |-> r.val]
    ELSE IF Catches(r.type) THEN [returned |-> TRUE, val |-> ErrorPrefix \o r.msg]
    ELSE [returned |-> FALSE, val |-> NoValue]

\* ---------------------------------------------------------------- stage 2
\* line 136: "-" * 50 + "\n", the fifty dashes kept as one element
Separator == <<"--------------------------------------------------", NL>>

RECURSIVE StripNonBlank(_)
\* [link.strip() for link in lines if link.strip()]
StripNonBlank(lines) ==
    IF lines = <<>> THEN <<>>
    ELSE (IF Strip(lines[1]) # <<>> THEN <<Strip(lines[1])>> ELSE <<>>)
         \o StripNonBlank(Tail(lines))

\* line 121 without its filter
KeepBlankLines(fl) == [k \in 1..Len(Split(fl, NL)) |-> Strip(Split(fl, NL)[k])]

\* line 121
ParseLinks(fl) == StripNonBlank(Split(fl, NL))

\* What the article extractor does for one link: the step that raises, or "ok".
\* article.nlp() is reached only under extract_summary (line 131).
LinkOutcomes(o) ==
    {"ok", "Article", "article.download", "article.parse"}
    \cup (IF o.extract_summary THEN {"article.nlp"} ELSE {})

ErrorMessage(outcome) == <<outcome, " failed">>

\* content as built by lines 128-136: all of it (stop = "end"), or what it
\* holds when article.nlp() raises at line 132 (stop = "summary")
Content(link, o, stop) ==
    <<"URL: ">> \o link \o <<NL>>
    \o (IF o.extract_title
        THEN <<"Title: ", "<title>", NL>> ELSE <<>>)
    \o (IF o.extract_summary /\ stop # "summary"
        THEN <<"Summary: ", "<summary>", NL>> ELSE <<>>)
    \o (IF o.extract_text /\ stop = "end"
        THEN <<"Text: ", "<text[:500]>", "...", NL>> ELSE <<>>)
    \o (IF stop = "end" THEN Separator ELSE <<>>)

\* line 139
ErrorBlock(link, msg) == <<"Error processing ">> \o link \o <<":", " ">> \o msg \o <<NL>> \o Separator

\* an except clause that appends what was built before the failure as well
LinkBlockKeepsContent(link, o, outcome) ==
    IF outcome = "ok" THEN Content(link, o, "end")
    ELSE (IF outcome = "article.nlp" THEN Content(link, o, "summary") ELSE <<>>)
         \o ErrorBlock(link, ErrorMessage(outcome))

\* the string lines 124-139 append to results for one link
LinkBlock(link, o, outcome) ==
    IF outcome = "ok" THEN Content(link, o, "end")
    ELSE ErrorBlock(link, ErrorMessage(outcome))

Upto(outcome, steps) ==
    IF outcome \in {steps[k] : k \in 1..Len(steps)}
    THEN SubSeq(steps, 1, CHOOSE k \in 1..Len(steps) : steps[k] = outcome)
    ELSE steps

\* the asset check repeated for every link
LinkCallsWithCheck(o, outcome) ==
    <<"nltk.find">> \o Upto(outcome, <<"Article", "article.download", "article.parse">>
                                 \o (IF o.extract_summary THEN <<"article.nlp">> ELSE <<>>))

\* article.nlp() called whatever extract_summary says
LinkCallsAlwaysNlp(o, outcome) == Upto(outcome, <<"Article", "article.download", "article.parse", "article.nlp">>)

\* the collaborator calls lines 125-132 make for one link, up to the one that raises
LinkCalls(o, outcome) ==
    Upto(outcome, <<"Article", "article.download", "article.parse">>
                  \o (IF o.extract_summary THEN <<"article.nlp">> ELSE <<>>))

\* nltk.data.find('tokenizers/punkt') searches every entry of nltk.data.path
AssetPresent == punkt_dir \/ punkt_elsewhere

\* line 115: nltk.data.find returns when the resource resolves and raises
\* LookupError when it does not
FindOutcomes == IF AssetPresent THEN {"found"} ELSE {"LookupError"}

DownloadsEvenWhenFound(outcome) == TRUE

\* lines 114-119: only "except LookupError" leads to nltk.download
DownloadAfterFind(outcome) == outcome = "LookupError"

RemovesWithoutSwitch(o, exists) == exists

\* lines 142-147: rmtree is called when the switch is on and the directory exists
ShouldRemove(o, exists) == o.clear_nltk_data /\ exists

\* ---------------------------------------------------------------- actions
Opts == [extract_title : BOOLEAN, extract_summary : BOOLEAN,
         extract_text : BOOLEAN, clear_nltk_data : BOOLEAN]
NoOpts == [extract_title |-> FALSE, extract_summary |-> FALSE,
           extract_text |-> FALSE, clear_nltk_data |-> FALSE]

\* feed_links texts typed into the node
DirectInputs == SeqsUpTo({"a", " ", NL}, MaxLen)

Init ==
    /\ pc = "idle"
    /\ feed = NoFeed
    /\ stage1_out = NoValue
    /\ feed_links = NoValue
    /\ opts = NoOpts
    /\ links = <<>>
    /\ idx = 1
    /\ results = <<>>
    /\ report = NoValue
    /\ calls = <<>>
    /\ log = <<>>
    /\ punkt_dir \in BOOLEAN
    /\ punkt_elsewhere \in BOOLEAN

\* RSSFeedParserNode.execute, lines 42-66, on the response resp
Stage1Execute ==
    /\ pc = "idle"
    /\ \E resp \in Responses :
        LET r == Stage1(resp) IN
        /\ pc' = IF r.returned THEN "s1_done" ELSE "s1_raised"
        /\ stage1_out' = r.val
        /\ feed' = resp
    /\ feed_links' = NoValue
    /\ opts' = NoOpts
    /\ links' = <<>>
    /\ idx' = 1
    /\ results' = <<>>
    /\ report' = NoValue
    /\ calls' = <<>>
    /\ log' = <<>>
    /\ UNCHANGED <<punkt_dir, punkt_elsewhere>>

\* ArticleContentExtractorNode.execute, lines 105-122: the search-path entry,
\* the lookup, and (when nothing is to be downloaded) the split of feed_links.
\* feed_links is typed in, or is the output of the stage 1 call just made.
Stage2Start(fl, o, outcome) ==
    /\ feed' = NoFeed
    /\ feed_links' = fl
    /\ opts' = o
    /\ idx' = 1
    /\ results' = <<>>
    /\ report' = NoValue
    /\ calls' = <<"path.insert", "nltk.find">>
    /\ IF DownloadAfterFind(outcome)
       THEN /\ pc' = "s2_download"
            /\ log' = <<"punkt missing, downloading">>
            /\ links' = <<>>
       ELSE /\ pc' = "s2_loop"
            /\ log' = <<"punkt found">>
            /\ links' = ParseLinks(fl)
    /\ UNCHANGED <<stage1_out, punkt_dir, punkt_elsewhere>>

Stage2Begin ==
    /\ pc \in {"idle", "s1_done"}
    /\ \E fl \in (IF pc = "idle" THEN DirectInputs ELSE {stage1_out}), o \in Opts,
          outcome \in FindOutcomes : Stage2Start(fl, o, outcome)

\* line 119, nltk.download('punkt', download_dir=nltk_data_path, quiet=True):
\* it fetches the resource (the archive may stay next to the unpacked
\* directory), or reports failure by its return value, or raises and, nothing
\* catching it, ends the call; then line 121
Stage2Download ==
    /\ pc = "s2_download"
    /\ calls' = Append(calls, "nltk.download")
    /\ \/ /\ punkt_dir' = TRUE
          /\ \E keeps_archive \in BOOLEAN :
                punkt_elsewhere' = (punkt_elsewhere \/ keeps_archive)
          /\ pc' = "s2_loop"
          /\ links' = ParseLinks(feed_links)
       \/ /\ pc' = "s2_loop"
          /\ links' = ParseLinks(feed_links)
          /\ UNCHANGED <<punkt_dir, punkt_elsewhere>>
       \/ /\ pc' = "s2_raised"
          /\ UNCHANGED <<links, punkt_dir, punkt_elsewhere>>
    /\ UNCHANGED <<feed, stage1_out, feed_links, opts, idx, results, report, log>>

\* one iteration of the loop of lines 123-139
Stage2Link ==
    /\ pc = "s2_loop"
    /\ idx <= Len(links)
    /\ \E outcome \in LinkOutcomes(opts) :
        /\ results' = Append(results, LinkBlock(links[idx], opts, outcome))
        /\ calls' = calls \o LinkCalls(opts, outcome)
    /\ idx' = idx + 1
    /\ UNCHANGED <<pc, feed, stage1_out, feed_links, opts, links, report, log,
                   punkt_dir, punkt_elsewhere>>

\* lines 141-154, once the loop is exhausted: the optional removal of
\* tokenizers/punkt (rmtree succeeds, or raises and is caught at line 151),
\* and the return of the joined results
Stage2Finish ==
    /\ pc = "s2_loop"
    /\ idx > Len(links)
    /\ IF ShouldRemove(opts, punkt_dir)
       THEN /\ calls' = calls \o <<"os.exists", "rmtree">>
            /\ \/ /\ punkt_dir' = FALSE
                  /\ log' = Append(log, "removed punkt")
               \/ /\ punkt_dir' = punkt_dir
                  /\ log' = Append(log, "removal failed")
       ELSE /\ calls' = IF opts.clear_nltk_data THEN Append(calls, "os.exists") ELSE calls
            /\ log' = IF opts.clear_nltk_data THEN Append(log, "no punkt directory") ELSE log
            /\ punkt_dir' = punkt_dir
    /\ report' = Join(results, <<NL>>)
    /\ pc' = "s2_done"
    /\ UNCHANGED <<feed, stage1_out, feed_links, opts, links, idx, results, punkt_elsewhere>>

\* The call has ended and the host is done with its result: the nodes keep no
\* state of their own (no __init__, no attribute is ever assigned), so what
\* outlives the call is only what is on disk.
EndOfCall ==
    /\ pc \in Ended
    /\ pc' = "idle"
    /\ feed' = NoFeed
    /\ stage1_out' = NoValue
    /\ feed_links' = NoValue
    /\ opts' = NoOpts
    /\ links' = <<>>
    /\ idx' = 1
    /\ results' = <<>>
    /\ report' = NoValue
    /\ calls' = <<>>
    /\ log' = <<>>
    /\ UNCHANGED <<punkt_dir, punkt_elsewhere>>

Next ==
    \/ Stage1Execute
    \/ Stage2Begin
    \/ Stage2Download
    \/ Stage2Link
    \/ Stage2Finish
    \/ EndOfCall

Spec == Init /\ [][Next]_vars

\* ================================================================= claims
Range(f) == {f[k] : k \in DOMAIN f}
Count(x, f) == Cardinality({k \in DOMAIN f : f[k] = x})
IsStr(v) == v # NoValue /\ \A k \in 1..Len(v) : v[k] \in STRING
HasPrefix(s, p) == Len(s) >= Len(p) /\ SubSeq(s, 1, Len(p)) = p
InStage2 == pc \in {"s2_download", "s2_loop", "s2_done", "s2_raised"}

\* ---- stage 1
FeedIsDocument == feed.kind = "ok" /\ feed.wellformed
RootIsRss == FeedIsDocument /\ feed.body.ns = "" /\ feed.body.name = "rss"
RootIsAtom == FeedIsDocument /\ feed.body.ns = AtomNS
RootUnsupported == FeedIsDocument /\ ~RootIsRss /\ ~RootIsAtom

\* C1: stage 1 never raises and always returns a string; after a failed fetch,
\* malformed XML or an unsupported root the string is "Error parsing feed: "
\* followed by the failure's message, which for an unsupported root holds the
\* root's tag name.
C1_Stage1AlwaysReturnsString ==
    /\ pc # "s1_raised"
    /\ pc = "s1_done" =>
        /\ IsStr(stage1_out)
        /\ feed.kind \in {"transport_error", "http_error"} =>
              stage1_out = <<"Error parsing feed:", " ">> \o Fetch(feed).msg
        /\ (feed.kind = "ok" /\ ~feed.wellformed) =>
              stage1_out = <<"Error parsing feed:", " ">> \o ParseXml(feed).msg
        /\ RootUnsupported =>
              /\ HasPrefix(stage1_out, <<"Error parsing feed:", " ">>)
              /\ feed.body.name \in Range(stage1_out)
              /\ HasPrefix(SubSeq(stage1_out, 4, Len(stage1_out)), Tag(feed.body))

C1_Witness ==
    /\ pc = "s1_done"
    /\ RootUnsupported
    /\ feed.body.ns # ""
    /\ feed.decl

\* the texts the claims expect of a document, written from the claims' words
FirstWhere(es, Test(_)) ==
    IF \E k \in 1..Len(es) : Test(es[k])
    THEN <<es[CHOOSE k \in 1..Len(es) : Test(es[k]) /\ \A j \in 1..(k-1) : ~Test(es[j])]>>
    ELSE <<>>

IsRssLinkEl(e) == e.ns = "" /\ e.name = "link"
IsAlternate(e) == e.ns = AtomNS /\ e.name = "link" /\ e.rel = <<"alternate">>

RECURSIVE NonEmptyLinkTexts(_)
NonEmptyLinkTexts(items) ==
    IF items = <<>> THEN <<>>
    ELSE LET l == FirstWhere(items[1].kids, IsRssLinkEl)
         IN  (IF l # <<>> /\ l[1].text # <<>> THEN <<l[1].text>> ELSE <<>>)
             \o NonEmptyLinkTexts(Tail(items))

RECURSIVE AlternateHrefs(_)
AlternateHrefs(entries) ==
    IF entries = <<>> THEN <<>>
    ELSE LET l == FirstWhere(Descendants(entries[1]), IsAlternate)
         IN  (IF l # <<>> THEN <<l[1].href>> ELSE <<>>) \o AlternateHrefs(Tail(entries))

\* C4: for a well-formed RSS document stage 1 returns the document-ordered
\* non-empty link texts of its items; an item with no link child, or with an
\* empty one, contributes no entry.
C4_RssLinksAreNonEmptyTexts ==
    (pc = "s1_done" /\ RootIsRss) =>
        stage1_out = Join(NonEmptyLinkTexts(
                        SelectSeq(Descendants(feed.body), LAMBDA e : e.name = "item")), <<NL>>)

\* C5: for a well-formed Atom document stage 1 returns, newline-joined, the
\* hrefs of the rel="alternate" links of its entries in document order,
\* skipping the entries that have none.
C5_AtomLinksAreAlternateHrefs ==
    (pc = "s1_done" /\ RootIsAtom) =>
        stage1_out = Join(AlternateHrefs(
                        SelectSeq(Descendants(feed.body), LAMBDA e : e.name = "entry")), <<NL>>)

\* ---- stage 2
RECURSIVE SelectIdx(_, _, _)
\* the indices k >= from of s with s[k] = x, ascending
SelectIdx(s, x, from) ==
    IF from > Len(s) THEN <<>>
    ELSE (IF s[from] = x THEN <<from>> ELSE <<>>) \o SelectIdx(s, x, from + 1)

\* the lines of a text, by the positions of its newlines
Breaks(s) == <<0>> \o SelectIdx(s, NL, 1) \o <<Len(s) + 1>>

RECURSIVE LinesFrom(_, _, _)
LinesFrom(s, b, k) ==
    IF k >= Len(b) THEN <<>>
    ELSE <<SubSeq(s, b[k] + 1, b[k + 1] - 1)>> \o LinesFrom(s, b, k + 1)

LinesOf(s) == LinesFrom(s, Breaks(s), 1)

\* a line without its leading and trailing whitespace
Trimmed(l) ==
    LET keep == {k \in 1..Len(l) : l[k] \notin Whitespace}
    IN  IF keep = {} THEN <<>>
        ELSE SubSeq(l, CHOOSE k \in keep : \A j \in keep : k <= j,
                       CHOOSE k \in keep : \A j \in keep : k >= j)

\* the trimmed non-blank lines of a text, in order
RECURSIVE TrimmedNonBlank(_)
TrimmedNonBlank(ls) ==
    IF ls = <<>> THEN <<>>
    ELSE LET t == Trimmed(ls[1])
         IN  (IF t = <<>> THEN <<>> ELSE <<t>>) \o TrimmedNonBlank(Tail(ls))

NonBlankLines(s) == TrimmedNonBlank(LinesOf(s))

SeparatorLine == <<"--------------------------------------------------">>

\* the header lines of a report's blocks: a block ends at a separator line, and
\* its header is the first line after the previous block's separator (and the
\* empty line that joins two blocks)
BlockHeaders(r) ==
    LET ls == LinesOf(r)
        seps == SelectIdx(ls, SeparatorLine, 1)
    IN  [b \in 1..Len(seps) |-> IF b = 1 THEN ls[1] ELSE ls[seps[b - 1] + 2]]

HeaderNames(h, link) ==
    \/ h = <<"URL: ">> \o link
    \/ HasPrefix(h, <<"Error processing ">> \o link \o <<":", " ">>)

\* C2: the report stage 2 returns holds exactly one block per non-blank
\* (trimmed) line of feed_links, in input order, whatever succeeded or failed;
\* so it does when feed_links is the string stage 1 returned.
C2_OneBlockPerNonBlankLine ==
    pc = "s2_done" =>
        LET want == NonBlankLines(feed_links)
            got == BlockHeaders(report)
        IN  /\ IsStr(report)
            /\ Len(got) = Len(want)
            /\ \A k \in 1..Len(want) : HeaderNames(got[k], want[k])

\* a report over a text with a blank line and a repeated link, one failed
C2_Witness ==
    /\ pc = "s2_done"
    /\ feed_links = <<"a", NL, " ", NL, "a">>
    /\ Len(results) = 2
    /\ HasPrefix(results[1], <<"Error processing ">>)
    /\ HasPrefix(results[2], <<"URL: ">>)

\* the report of a stage 1 output of two links
C2_PipedWitness ==
    /\ pc = "s2_done"
    /\ stage1_out = <<"a", NL, "b">>
    /\ feed_links = stage1_out
    /\ Len(BlockHeaders(report)) = 2

\* the block of a link that was processed without failure
ExpectedSuccess(link, o) ==
    <<"URL: ">> \o link \o <<NL>>
    \o (IF o.extract_title THEN <<"Title: ", "<title>", NL>> ELSE <<>>)
    \o (IF o.extract_summary THEN <<"Summary: ", "<summary>", NL>> ELSE <<>>)
    \o (IF o.extract_text THEN <<"Text: ", "<text[:500]>", "...", NL>> ELSE <<>>)
    \o SeparatorLine \o <<NL>>

FailureMessages ==
    {<<s, " failed">> : s \in {"Article", "article.download", "article.parse", "article.nlp"}}

ExpectedError(link, m) ==
    <<"Error processing ">> \o link \o <<":", " ">> \o m \o <<NL>> \o SeparatorLine \o <<NL>>

IsErrorBlock(b, link) == \E m \in FailureMessages : b = ExpectedError(link, m)

FieldMarks == {"URL: ", "Title: ", "Summary: ", "Text: "}

\* C3: a failure for link i changes block i alone: block i is exactly the line
\* "Error processing <url>: <message>" and the separator, with none of the
\* fields built for that link; every other link is still processed and its
\* block is what it is when link i succeeds.
C3_FailureIsolatedToItsBlock ==
    /\ [](InStage2 =>
            /\ Len(results) = (IF pc = "s2_done" THEN Len(links) ELSE idx - 1)
            /\ \A k \in 1..Len(results) :
                  \/ results[k] = ExpectedSuccess(links[k], opts)
                  \/ /\ IsErrorBlock(results[k], links[k])
                     /\ Range(results[k]) \cap FieldMarks = {})
    /\ [][(pc = "s2_loop" /\ pc' = "s2_loop") =>
            (results' = results \/ \E b \in Range(results') : results' = Append(results, b))]_vars

\* three links, the second one unreachable
C3_Witness ==
    /\ pc = "s2_done"
    /\ Len(links) = 3
    /\ results[1] = ExpectedSuccess(links[1], opts)
    /\ results[2] = ExpectedError(links[2], <<"article.download", " failed">>)
    /\ results[3] = ExpectedSuccess(links[3], opts)
    /\ opts.extract_title /\ opts.extract_summary /\ opts.extract_text

\* ---- the language asset
AssetCalls == {"path.insert", "nltk.find", "nltk.download"}

\* the asset check made once, as the first thing of the call: the search-path
\* entry, then the lookup, then at most one download, and nothing of it later
CheckedOnceBeforeLoop ==
    /\ Len(calls) >= 2 /\ calls[1] = "path.insert" /\ calls[2] = "nltk.find"
    /\ \A k \in 3..Len(calls) : calls[k] \notin {"path.insert", "nltk.find"}
    /\ \A k \in 4..Len(calls) : calls[k] # "nltk.download"
    /\ (pc \in {"s2_loop", "s2_done"} /\ log[1] # "punkt found") =>
          (Len(calls) >= 3 /\ calls[3] = "nltk.download")

\* C6 as stated: the asset check is made once, before the first link, when
\* extract_summary is on, and not at all when it is off.
C6_AssetCheckGatedBySummary ==
    InStage2 =>
        IF opts.extract_summary THEN CheckedOnceBeforeLoop
        ELSE Range(calls) \cap AssetCalls = {}

\* C6, amended: the asset check is made exactly once in every stage 2 call,
\* before the first link is processed, whether extract_summary is on or off,
\* and is never repeated per link.
C6_AssetCheckOncePerCall == InStage2 => CheckedOnceBeforeLoop

C6_Witness ==
    /\ pc = "s2_done"
    /\ ~opts.extract_summary
    /\ Len(links) = 2
    /\ calls = <<"path.insert", "nltk.find", "nltk.download",
                 "Article", "article.download", "article.parse",
                 "Article", "article.download", "article.parse">>

\* C7: stage 2 returns a string unconditionally; no failure of the asset
\* lookup, of the download on a miss, or of the cleanup reaches the caller.
C7_Stage2AlwaysReturns == pc # "s2_raised"

FirstOfLines(b) ==
    LET ls == LinesOf(b) IN [k \in 1..Len(ls) |-> IF ls[k] = <<>> THEN "" ELSE ls[k][1]]

\* C8: a success block holds the URL line always and the Title, Summary and
\* Text lines exactly when their switches are on, in that order, then the
\* separator; article.nlp() is called only under extract_summary, so without
\* it no block is the error of a failed NLP pass.
C8_FieldsFollowSwitches ==
    InStage2 =>
        /\ \A k \in 1..Len(results) :
              HasPrefix(results[k], <<"URL: ">>) =>
                 FirstOfLines(results[k]) =
                    <<"URL: ">>
                    \o (IF opts.extract_title THEN <<"Title: ">> ELSE <<>>)
                    \o (IF opts.extract_summary THEN <<"Summary: ">> ELSE <<>>)
                    \o (IF opts.extract_text THEN <<"Text: ">> ELSE <<>>)
                    \o SeparatorLine \o <<"">>
        /\ ~opts.extract_summary =>
              /\ "article.nlp" \notin Range(calls)
              /\ \A k \in 1..Len(results) : "article.nlp" \notin Range(results[k])

C8_Witness ==
    /\ pc = "s2_done"
    /\ opts.extract_title /\ ~opts.extract_summary /\ opts.extract_text
    /\ Len(results) = 2
    /\ HasPrefix(results[1], <<"URL: ">>)
    /\ HasPrefix(results[2], <<"Error processing ">>)

NewDownload == Count("nltk.download", calls') > Count("nltk.download", calls)

\* C9: a stage 2 call that starts with the asset present downloads nothing;
\* once a call has fetched it, no later call downloads until a call with
\* clear_nltk_data on removes it.
C9_NoDownloadWhilePresent ==
    /\ [][(pc \in {"idle", "s1_done"} /\ AssetPresent) => pc' # "s2_download"]_vars
    /\ [][NewDownload => ~AssetPresent]_vars
    /\ [][(punkt_dir /\ ~punkt_dir') =>
            (opts.clear_nltk_data /\ calls'[Len(calls')] = "rmtree")]_vars

\* a call that found the asset in place and returned without a download
C9_Witness ==
    /\ pc = "s2_done"
    /\ punkt_dir /\ ~punkt_elsewhere
    /\ log[1] = "punkt found"
    /\ "nltk.download" \notin Range(calls)
    /\ Len(links) = 2

\* C10: the cache is evicted only after the whole loop has finished and only
\* with clear_nltk_data on; then, unless the removal fails, tokenizers/punkt is
\* absent when the call returns, whether or not a link failed; with the switch
\* off nothing is removed; a removal failure is logged, never raised, and the
\* report is the joined results either way.
C10_EvictionOnlyAfterLoop ==
    /\ [][(punkt_dir /\ ~punkt_dir') =>
            (pc = "s2_loop" /\ idx > Len(links) /\ opts.clear_nltk_data /\ pc' = "s2_done")]_vars
    /\ [][(pc = "s2_loop" /\ idx > Len(links)) => pc' = "s2_done"]_vars
    /\ [](pc = "s2_done" =>
            /\ (opts.clear_nltk_data /\ "removal failed" \notin Range(log)) => ~punkt_dir
            /\ ~opts.clear_nltk_data => Range(calls) \cap {"os.exists", "rmtree"} = {}
            /\ "removal failed" \in Range(log) => (opts.clear_nltk_data /\ punkt_dir)
            /\ report = Join(results, <<NL>>))

\* an eviction at the end of a call in which a link failed
C10_Witness ==
    /\ pc = "s2_done"
    /\ opts.clear_nltk_data
    /\ ~punkt_dir
    /\ calls[Len(calls)] = "rmtree"
    /\ Len(results) = 2
    /\ HasPrefix(results[1], <<"Error processing ">>)

====
